---- MODULE Spec2Model ----
(***************************************************************************)
(* DebugService of the room-booking test suite: the step registry          *)
(* (debugSteps, testStartTime), trackStep with its awaits, finalizeTest    *)
(* with its report, initializeTest.  Every await of the source is a        *)
(* separate action, so that a pending call can interleave with the hooks   *)
(* (beforeEach / afterEach) of the same test and with the calls of another *)
(* test.  JavaScript arrays are references: the step lists live in `heap`  *)
(* and the map, a pending trackStep and a pending finalizeTest hold        *)
(* references into it.  The helpers around the service                    *)
(* (ElementActions.clickWithRetry, DataLoaderService, measurePerformance,  *)
(* the outcome check of the test bodies, the artifact paths) have their    *)
(* own variables and their own specifications.                             *)
(***************************************************************************)
EXTENDS Integers, Sequences, FiniteSets, TLC

\* ---- bounds of the model ----
MaxTime == 2          \* the integer clock runs 0..MaxTime
MaxSteps == 2         \* a trackStep call is issued only while stepNumber <= MaxSteps

Tests == {"t1", "t2"}               \* test identifiers (testInfo.title)
Refs == 1..3                        \* array references per test: map, pending step, pending finalize
Values == {7, 42}                   \* values a step function can return
StepErrors == {"X"}                 \* errors a step function can throw
CaptureError == "CaptureError"      \* a driver call (screenshot, content, tracing) rejected
LogError == "StepLogError"          \* test.step rejected inside logStepDetails
Absent == -1                        \* testStartTime has no entry

VARIABLES
    active,         \* the tests whose flows run in this execution
    overlap,        \* the hooks of a test may run while a call of that test is pending
    isDebugMode,    \* DebugService.isDebugMode, read once in the constructor
    now,            \* Date.now()
    debugSteps,     \* Map testName -> array reference (0: no entry)
    testStartTime,  \* Map testName -> start time (Absent: no entry)
    heap,           \* heap[t][r]: the DebugStep[] behind reference r
    tracing,        \* context.tracing of the test's BrowserContext is recording
    dirs,           \* the tests whose directory test-results/debug/<testName> exists
    call,           \* the trackStep call of each test: position and locals
    fin,            \* the finalizeTest call of each test: position, locals, report
    init,           \* outcome of the last initializeTest call of each test
    session,        \* observation: calls settled since the session started
    click,          \* ElementActions.clickWithRetry: the call and what it did
    outcome,        \* the check of the booking submission's outcome in a test body
    perf,           \* DebugService.measurePerformance: the call and its outcome
    loader,         \* DataLoaderService: the cache, a pending getter, the last outcome
    files           \* the artifacts written under test-results/debug, with their paths

\* The state of DebugService, and the state of the helpers around it.
serviceVars == <<active, overlap, isDebugMode, now, debugSteps, testStartTime, heap, tracing,
                 dirs, call, fin, init, session>>

helperVars == <<click, outcome, perf, loader, files>>

vars == <<serviceVars, helperVars>>

\* ---- data ----
NoDetails == [present |-> FALSE, message |-> "", screenshot |-> FALSE, htmlSnapshot |-> FALSE]

NoReport == [present |-> FALSE, passed |-> FALSE, totalDuration |-> 0, totalSteps |-> 0,
             successfulSteps |-> 0, failedSteps |-> 0, steps |-> <<>>]

IdleCall == [pc |-> "idle", steps |-> 0, hadSession |-> FALSE, stepStartTime |-> 0,
             sr |-> [stepNumber |-> 0, success |-> FALSE, duration |-> 0,
                     screenshot |-> FALSE, errorDetails |-> NoDetails],
             pushedAt |-> 0, pushes |-> 0, invoked |-> 0,
             fnKind |-> "none", fnVal |-> 0, fnErr |-> "", shotFailed |-> FALSE,
             captureError |-> "", error |-> "", result |-> 0]

IdleFin == [pc |-> "idle", steps |-> 0, hadSession |-> FALSE, totalDuration |-> 0,
            success |-> FALSE, error |-> "", report |-> NoReport,
            okCalls |-> 0, failCalls |-> 0, sequential |-> FALSE]

IdleInit == [pc |-> "idle", error |-> ""]

NoSession == [ok |-> 0, failed |-> 0, sequential |-> FALSE, finished |-> FALSE]

Settled == {"idle", "returned", "threw"}

\* What is left of a call once it has settled: its outcome, as the caller sees it
\* (the locals of the call are gone).
SettledCall(c, pc, result, error) ==
    [IdleCall EXCEPT !.pc = pc, !.result = result, !.error = error,
                     !.hadSession = c.hadSession, !.pushes = c.pushes,
                     !.invoked = c.invoked, !.fnKind = c.fnKind,
                     !.shotFailed = c.shotFailed, !.captureError = c.captureError]

SettledFin(f, pc, error) == [IdleFin EXCEPT !.pc = pc, !.error = error,
                                            !.hadSession = f.hadSession]

\* ---- ElementActions.clickWithRetry (PageUtils.ts) ----
MaxRetries == 3                     \* largest maxRetries a caller passes (the default is 3)
MinRetries == -1                    \* smallest maxRetries a caller passes

NoError == [kind |-> "none", attempt |-> 0]

IdleClick == [pc |-> "idle", maxRetries |-> 0, i |-> 0, attempts |-> 0, waits |-> 0,
              clicked |-> FALSE, error |-> NoError]

\* ---- the check of the booking submission's outcome (test bodies) ----
\* The three test files that make the check.
Variants == {"structured", "refactored", "debug"}

UnexpectedStateError == "UnexpectedStateError"

IdleOutcome == [pc |-> "idle", variant |-> "structured", confirmed |-> "unknown",
                knownError |-> "unknown", error |-> ""]

\* ---- DebugService.measurePerformance ----
HeapSizes == {0, 1}                 \* process.memoryUsage().heapUsed, in units

NoMeasure == [present |-> FALSE, result |-> 0, duration |-> 0, memoryUsage |-> 0]

IdlePerf == [pc |-> "idle", invoked |-> 0, startTime |-> 0, startMemory |-> 0,
             opKind |-> "none", opVal |-> 0, opErr |-> "",
             value |-> NoMeasure, error |-> ""]

\* ---- DataLoaderService ----
MaxLoads == 3                       \* the JSON is assigned to the cache at most MaxLoads times

\* The keyed getters and the keys a caller passes: data exists for "k" only.
Getters == {"getValidUser", "getInvalidUser", "getBookingScenario", "getValidationTestCase",
            "getTestScenario", "getRoomData", "getPricingData", "getEnvironmentConfig"}

Keys == {"k", "missing"}

TestDataJson == 1                   \* the object imported from ../data/test-data.json

NoOutcome == [op |-> "none", kind |-> "none", getter |-> "", key |-> "", data |-> 0]

IdleLoader == [testData |-> 0, loads |-> 0,
               pc |-> "idle", getter |-> "", key |-> "", data |-> 0,
               last |-> NoOutcome]

\* ---- the heap of step arrays ----
Held(t, dS, c, f) == {dS[t], c[t].steps, f[t].steps} \ {0}

\* Arrays nobody references any more are collected (reset to empty).
Normalize(h, dS, c, f) ==
    [t \in Tests |-> [r \in Refs |-> IF r \in Held(t, dS, c, f) THEN h[t][r] ELSE <<>>]]

FreshRef(holders) == CHOOSE r \in Refs \ holders : \A q \in Refs \ holders : r <= q

Arr(t, r) == IF r = 0 THEN <<>> ELSE heap[t][r]

\* The steps recorded under a test identifier.
Under(t) == Arr(t, debugSteps[t])

\* ---- pure helpers ----
RECURSIVE SumDuration(_)
SumDuration(s) == IF s = <<>> THEN 0 ELSE Head(s).duration + SumDuration(Tail(s))

CountSuccess(s, b) == Cardinality({i \in 1..Len(s) : s[i].success = b})

\* Numbering that counts the successful steps only.
NextStepNumber_SkipsFailed(steps) == CountSuccess(steps, TRUE) + 1

\* Line 88: const stepNumber = steps.length + 1.
NextStepNumber(steps) == Len(steps) + 1

\* A report that infers the outcome from the steps.
generateTestReport_InferPassed(steps, totalDuration, success) ==
    [present |-> TRUE, passed |-> CountSuccess(steps, FALSE) = 0,
     totalDuration |-> totalDuration,
     totalSteps |-> Len(steps),
     successfulSteps |-> CountSuccess(steps, TRUE),
     failedSteps |-> CountSuccess(steps, FALSE),
     steps |-> steps]

\* Lines 282-317: the report printed by generateTestReport.
generateTestReport(steps, totalDuration, success) ==
    [present |-> TRUE, passed |-> success, totalDuration |-> totalDuration,
     totalSteps |-> Len(steps),
     successfulSteps |-> CountSuccess(steps, TRUE),
     failedSteps |-> CountSuccess(steps, FALSE),
     steps |-> steps]

\* ---- the artifact directory of a test ----
WriteError == "EIO"                 \* writeFileSync failed (disk, permissions)

\* fs.mkdirSync(dir, { recursive }): only the non-recursive form fails on a
\* directory that exists.
mkdirSync(exists, recursive) == IF exists /\ ~recursive THEN "EEXIST" ELSE ""

EnsureDir_Unguarded(exists) == mkdirSync(exists, FALSE)

\* Lines 182-185: if (!fs.existsSync(dir)) fs.mkdirSync(dir, { recursive: true }).
EnsureDir(exists) == IF ~exists THEN mkdirSync(exists, TRUE) ELSE ""

\* Line 187: fs.writeFileSync(htmlPath, htmlContent) into the directory.
writeFileSync(dirExists) == IF dirExists THEN "" ELSE "ENOENT"

\* page.screenshot({ path }) and tracing.stop({ path }) create the missing
\* directories of the path before they write.
ScreenshotWritten(d, t) == d \cup {t}

\* ---- initial state: the singleton after construction ----
TypeInit ==
    /\ isDebugMode \in BOOLEAN
    /\ now = 0
    /\ debugSteps = [t \in Tests |-> 0]
    /\ testStartTime = [t \in Tests |-> Absent]
    /\ heap = [t \in Tests |-> [r \in Refs |-> <<>>]]
    /\ tracing = [t \in Tests |-> FALSE]
    /\ dirs = {}
    /\ call = [t \in Tests |-> IdleCall]
    /\ fin = [t \in Tests |-> IdleFin]
    /\ init = [t \in Tests |-> IdleInit]
    /\ session = [t \in Tests |-> NoSession]
    /\ click = IdleClick
    /\ outcome = IdleOutcome
    /\ perf = IdlePerf
    /\ loader = IdleLoader
    /\ files = {}

\* One test whose flow awaits every call before it makes the next.
Init == active = {"t1"} /\ overlap = FALSE /\ TypeInit

\* One test whose hooks can run while a step or a finalizeTest is still pending
\* (a timed-out test body: afterEach runs, the step settles later).
InitOverlap == active = {"t1"} /\ overlap = TRUE /\ TypeInit

Quiet(t) == call[t].pc \in Settled /\ fin[t].pc \in Settled

\* ---- the clock ----
Tick ==
    /\ now < MaxTime
    /\ now' = now + 1
    /\ UNCHANGED <<helperVars, active, overlap, dirs, isDebugMode, debugSteps, testStartTime, heap, tracing,
                   call, fin, init, session>>

\* ---- initializeTest ----
\* Called from beforeEach, before the test body: no call of the test is pending.
\* Lines 60-61 run synchronously; tracing.start is awaited in debug mode only and
\* nothing follows it, so its outcome is the outcome of the call.
InitializeBody(t) ==
    /\ LET ref == FreshRef({call[t].steps, fin[t].steps} \ {0})
           dS == [debugSteps EXCEPT ![t] = ref]
           quiet == call[t].pc \in Settled /\ fin[t].pc \in Settled
       IN /\ testStartTime' = [testStartTime EXCEPT ![t] = now]
          /\ debugSteps' = dS
          /\ heap' = Normalize([heap EXCEPT ![t][ref] = <<>>], dS, call, fin)
          /\ session' = [session EXCEPT ![t] =
                            [ok |-> 0, failed |-> 0, sequential |-> quiet, finished |-> FALSE]]
    /\ \/ /\ ~isDebugMode
          /\ init' = [init EXCEPT ![t] = [pc |-> "returned", error |-> ""]]
          /\ UNCHANGED tracing
       \/ /\ isDebugMode
          /\ tracing' = [tracing EXCEPT ![t] = TRUE]
          /\ init' = [init EXCEPT ![t] = [pc |-> "returned", error |-> ""]]
       \/ /\ isDebugMode
          /\ init' = [init EXCEPT ![t] = [pc |-> "threw", error |-> CaptureError]]
          /\ UNCHANGED tracing
    /\ UNCHANGED <<helperVars, active, overlap, dirs, isDebugMode, now, call, fin>>

Live(t) == debugSteps[t] # 0 /\ testStartTime[t] # Absent

DuplicateSessionError == "DuplicateSessionError"

\* initializeTest as the registry contract words it: a live session is kept.
initializeTest_KeepsLiveSession(t) ==
    /\ Quiet(t)
    /\ IF Live(t)
       THEN /\ init' = [init EXCEPT ![t] = [pc |-> "threw", error |-> DuplicateSessionError]]
            /\ UNCHANGED <<helperVars, active, overlap, dirs, isDebugMode, now, debugSteps, testStartTime,
                           heap, tracing, call, fin, session>>
       ELSE InitializeBody(t)

initializeTest(t) ==
    /\ Quiet(t)
    /\ InitializeBody(t)

\* ---- trackStep ----
\* Lines 86-98, up to the first await: the before-screenshot in debug mode,
\* the step function otherwise.
TrackStepBody(t) ==
    /\ LET had == debugSteps[t] # 0
           ref == IF had THEN debugSteps[t] ELSE FreshRef(Held(t, debugSteps, call, fin))
           n == NextStepNumber(heap[t][ref])
           c == [IdleCall EXCEPT
                   !.pc = IF isDebugMode THEN "before" ELSE "running",
                   !.steps = ref, !.hadSession = had, !.stepStartTime = now,
                   !.sr = [stepNumber |-> n, success |-> FALSE, duration |-> 0,
                           screenshot |-> FALSE, errorDetails |-> NoDetails],
                   !.invoked = IF isDebugMode THEN 0 ELSE 1]
       IN /\ n <= MaxSteps
          /\ call' = [call EXCEPT ![t] = c]
          /\ session' = [session EXCEPT ![t].sequential =
                            @ /\ had /\ fin[t].pc \in Settled]
    /\ UNCHANGED <<helperVars, active, overlap, dirs, isDebugMode, now, debugSteps, testStartTime, heap, tracing,
                   fin, init>>

SessionNotFoundError == "SessionNotFoundError"

\* trackStep as the registry contract words it: no session, no step.
trackStep_SessionRequired(t) ==
    /\ call[t].pc \in Settled
    /\ overlap \/ Quiet(t)
    /\ IF debugSteps[t] = 0
       THEN /\ call' = [call EXCEPT ![t] =
                          SettledCall(IdleCall, "threw", 0, SessionNotFoundError)]
            /\ UNCHANGED <<helperVars, active, overlap, dirs, isDebugMode, now, debugSteps, testStartTime,
                           heap, tracing, fin, init, session>>
       ELSE TrackStepBody(t)

trackStep(t) ==
    /\ call[t].pc \in Settled
    /\ overlap \/ Quiet(t)
    /\ TrackStepBody(t)

\* Lines 137-146: the catch branch up to the await of captureErrorContext, whose
\* first statement awaits the error screenshot.  stepResult is one object: when it
\* is already in the array (pushed before logStepDetails failed) the array entry
\* changes with it.
Publish(h, t, c) ==
    IF c.pushedAt > 0 THEN [h EXCEPT ![t][c.steps][c.pushedAt] = c.sr] ELSE h

\* A catch branch that marks the step failed and attaches no error details.
Catch_NoDetails(c, err) ==
    [c EXCEPT !.pc = "errshot", !.error = err,
              !.sr = [c.sr EXCEPT !.duration = now - c.stepStartTime,
                                  !.success = FALSE]]

Catch(c, err) ==
    [c EXCEPT !.pc = "errshot", !.error = err,
              !.sr = [c.sr EXCEPT !.duration = now - c.stepStartTime,
                                  !.success = FALSE,
                                  !.errorDetails = [present |-> TRUE, message |-> err,
                                                    screenshot |-> FALSE,
                                                    htmlSnapshot |-> FALSE]]]

\* One step list for the whole service: what a test records shows under every
\* identifier that has an entry.
Push_Shared(h, t, c) ==
    [u \in Tests |->
        IF u = t THEN [h[u] EXCEPT ![c.steps] = Append(@, c.sr)]
        ELSE IF debugSteps[u] # 0 THEN [h[u] EXCEPT ![debugSteps[u]] = Append(@, c.sr)]
        ELSE h[u]]

\* Lines 128-129 and 151-152: steps.push(stepResult); debugSteps.set(testName, steps).
Push(h, t, c) == [h EXCEPT ![t][c.steps] = Append(@, c.sr)]

Pushed(h, t, c) ==
    [c EXCEPT !.pushedAt = IF @ = 0 THEN Len(h[t][c.steps]) + 1 ELSE @,
              !.pushes = @ + 1]

ReturnValue_Undefined(c) == 0

\* Line 134: return result.
ReturnValue(c) == c.fnVal

Rethrow_Wrapped(c) == "StepFailedError"

\* Line 154: throw error.
Rethrow(c) == c.error

\* Lines 102-109: the before-screenshot settles.
BeforeScreenshot(t) ==
    /\ call[t].pc = "before"
    /\ \/ /\ call' = [call EXCEPT ![t] = [@ EXCEPT !.pc = "running", !.invoked = @ + 1,
                                                  !.sr = [@ EXCEPT !.screenshot = TRUE]]]
          /\ dirs' = ScreenshotWritten(dirs, t)
       \/ /\ call' = [call EXCEPT ![t] = Catch([@ EXCEPT !.shotFailed = TRUE], CaptureError)]
          /\ UNCHANGED dirs
    /\ UNCHANGED <<helperVars, active, overlap, isDebugMode, now, debugSteps, testStartTime, heap, tracing,
                   fin, init, session>>

\* Lines 112-129: the step function settles.  On a value: duration, success, then
\* the after-screenshot (debug mode) or push, set and the await of logStepDetails.
StepFunctionSettles(t) ==
    /\ call[t].pc = "running"
    /\ \/ \E v \in Values :
            LET c1 == [call[t] EXCEPT !.fnKind = "returned", !.fnVal = v,
                                      !.sr = [@ EXCEPT !.duration = now - call[t].stepStartTime,
                                                       !.success = TRUE]]
            IN IF isDebugMode
               THEN /\ call' = [call EXCEPT ![t] = [c1 EXCEPT !.pc = "after"]]
                    /\ UNCHANGED <<debugSteps, heap>>
               ELSE LET c2 == [Pushed(heap, t, c1) EXCEPT !.pc = "log"]
                        dS == [debugSteps EXCEPT ![t] = c1.steps]
                    IN /\ call' = [call EXCEPT ![t] = c2]
                       /\ debugSteps' = dS
                       /\ heap' = Normalize(Push(heap, t, c1), dS,
                                            [call EXCEPT ![t] = c2], fin)
       \/ \E e \in StepErrors :
            /\ call' = [call EXCEPT ![t] =
                           Catch([@ EXCEPT !.fnKind = "threw", !.fnErr = e], e)]
            /\ UNCHANGED <<debugSteps, heap>>
    /\ UNCHANGED <<helperVars, active, overlap, dirs, isDebugMode, now, testStartTime, tracing, fin, init, session>>

\* Lines 120-129: the after-screenshot settles.
AfterScreenshot(t) ==
    /\ call[t].pc = "after"
    /\ \/ LET c2 == [Pushed(heap, t, call[t]) EXCEPT !.pc = "log"]
              dS == [debugSteps EXCEPT ![t] = call[t].steps]
          IN /\ call' = [call EXCEPT ![t] = c2]
             /\ debugSteps' = dS
             /\ heap' = Normalize(Push(heap, t, call[t]), dS, [call EXCEPT ![t] = c2], fin)
             /\ dirs' = ScreenshotWritten(dirs, t)
       \/ /\ call' = [call EXCEPT ![t] = Catch([@ EXCEPT !.shotFailed = TRUE], CaptureError)]
          /\ UNCHANGED <<debugSteps, heap, dirs>>
    /\ UNCHANGED <<helperVars, active, overlap, isDebugMode, now, testStartTime, tracing, fin, init, session>>

\* Lines 132-134 and 212-239: logStepDetails (test.step) settles; on success the
\* call returns the step function's value.
logStepDetails(t) ==
    /\ call[t].pc = "log"
    /\ \/ LET c2 == SettledCall(call[t], "returned", ReturnValue(call[t]), "")
          IN /\ call' = [call EXCEPT ![t] = c2]
             /\ heap' = Normalize(heap, debugSteps, [call EXCEPT ![t] = c2], fin)
             /\ session' = [session EXCEPT ![t].ok = @ + 1]
       \/ LET c2 == Catch(call[t], LogError)
          IN /\ call' = [call EXCEPT ![t] = c2]
             /\ heap' = Publish(heap, t, c2)
             /\ UNCHANGED session
    /\ UNCHANGED <<helperVars, active, overlap, dirs, isDebugMode, now, debugSteps, testStartTime, tracing, fin, init>>

\* Lines 149-154: captureErrorContext has returned; push, set, throw.
Throw(t, c) ==
    LET h1 == Push(Publish(heap, t, c), t, c)
        c2 == SettledCall(Pushed(heap, t, c), "threw", 0, Rethrow(c))
        dS == [debugSteps EXCEPT ![t] = c.steps]
    IN /\ call' = [call EXCEPT ![t] = c2]
       /\ debugSteps' = dS
       /\ heap' = Normalize(h1, dS, [call EXCEPT ![t] = c2], fin)
       /\ session' = [session EXCEPT ![t].failed = @ + 1]

\* Lines 167-207: captureErrorContext, one action per await.  Any rejection is
\* caught at line 204 (captureError) and the function returns; step.errorDetails
\* is enhanced only by the assignment at line 193, after the last await.
CaptureStage(t, from, to) ==
    /\ call[t].pc = from
    /\ \/ /\ call' = [call EXCEPT ![t] = [@ EXCEPT !.pc = to]]
          /\ UNCHANGED <<debugSteps, heap, session>>
       \/ Throw(t, [call[t] EXCEPT !.captureError = CaptureError])
    /\ UNCHANGED <<helperVars, active, overlap, dirs, isDebugMode, now, testStartTime, tracing, fin, init>>

\* Lines 169-173: await page.screenshot (error screenshot).
ErrorScreenshot(t) ==
    /\ call[t].pc = "errshot"
    /\ \/ /\ call' = [call EXCEPT ![t] = [@ EXCEPT !.pc = "content"]]
          /\ dirs' = ScreenshotWritten(dirs, t)
          /\ UNCHANGED <<debugSteps, heap, session>>
       \/ /\ Throw(t, [call[t] EXCEPT !.captureError = CaptureError])
          /\ UNCHANGED dirs
    /\ UNCHANGED <<helperVars, active, overlap, isDebugMode, now, testStartTime, tracing, fin, init>>

\* Lines 176-187: await page.content, then existsSync / mkdirSync / writeFileSync,
\* all synchronous.  writeFileSync needs the directory and can fail for reasons
\* of its own.
PageContent(t) ==
    /\ call[t].pc = "content"
    /\ \/ /\ Throw(t, [call[t] EXCEPT !.captureError = CaptureError])
          /\ UNCHANGED dirs
       \/ LET made == EnsureDir(t \in dirs)
              d1 == IF made = "" THEN dirs \cup {t} ELSE dirs
          IN /\ dirs' = d1
             /\ IF made # ""
                THEN Throw(t, [call[t] EXCEPT !.captureError = made])
                ELSE IF writeFileSync(t \in d1) # ""
                THEN Throw(t, [call[t] EXCEPT !.captureError = writeFileSync(t \in d1)])
                ELSE \/ /\ call' = [call EXCEPT ![t] = [@ EXCEPT !.pc = "title"]]
                        /\ UNCHANGED <<debugSteps, heap, session>>
                     \/ Throw(t, [call[t] EXCEPT !.captureError = WriteError])
    /\ UNCHANGED <<helperVars, active, overlap, isDebugMode, now, testStartTime, tracing, fin, init>>

\* Line 198: await page.title (getRecentConsoleLogs at line 190 never rejects).
PageTitle(t) == CaptureStage(t, "title", "evaluate")

\* Lines 193-202: await page.evaluate; on success errorDetails gets the paths.
PageEvaluate(t) ==
    /\ call[t].pc = "evaluate"
    /\ \/ Throw(t, [call[t] EXCEPT !.sr = [@ EXCEPT !.errorDetails =
                         [@ EXCEPT !.screenshot = TRUE, !.htmlSnapshot = TRUE]]])
       \/ Throw(t, [call[t] EXCEPT !.captureError = CaptureError])
    /\ UNCHANGED <<helperVars, active, overlap, dirs, isDebugMode, now, testStartTime, tracing, fin, init>>

\* ---- finalizeTest ----
\* Lines 258-261 read the step array and the start time and compute totalDuration.
\* Without debug mode line 272 follows at once: generateTestReport runs
\* synchronously and its await yields before the clean-up of lines 275-276.
FinalizeBody(t, success) ==
    /\ LET startTime == testStartTime[t]
           total == IF startTime # Absent THEN now - startTime ELSE 0
           f0 == [IdleFin EXCEPT !.steps = IF isDebugMode THEN debugSteps[t] ELSE 0,
                                 !.hadSession = debugSteps[t] # 0 \/ startTime # Absent,
                                 !.totalDuration = total, !.success = success]
           f1 == IF isDebugMode
                 THEN [f0 EXCEPT !.pc = "stop"]
                 ELSE [f0 EXCEPT !.pc = "cleanup",
                                 !.report = generateTestReport(Under(t), total, success),
                                 !.okCalls = session[t].ok, !.failCalls = session[t].failed,
                                 !.sequential = session[t].sequential
                                                /\ call[t].pc \in Settled]
       IN fin' = [fin EXCEPT ![t] = f1]
    /\ session' = [session EXCEPT ![t].finished = TRUE,
                                  ![t].sequential = @ /\ call[t].pc \in Settled]
    /\ UNCHANGED <<helperVars, active, overlap, dirs, isDebugMode, now, debugSteps, testStartTime, heap, tracing,
                   call, init>>

\* finalizeTest as the registry contract words it: no session, no report.
finalizeTest_SessionRequired(t, success) ==
    /\ fin[t].pc \in Settled
    /\ overlap \/ Quiet(t)
    /\ IF debugSteps[t] = 0 /\ testStartTime[t] = Absent
       THEN /\ fin' = [fin EXCEPT ![t] = SettledFin(IdleFin, "threw", SessionNotFoundError)]
            /\ UNCHANGED <<helperVars, active, overlap, dirs, isDebugMode, now, debugSteps, testStartTime,
                           heap, tracing, call, init, session>>
       ELSE FinalizeBody(t, success)

finalizeTest(t, success) ==
    /\ fin[t].pc \in Settled
    /\ overlap \/ Quiet(t)
    /\ FinalizeBody(t, success)

\* Lines 264-272: tracing.stop settles.  On success the report is generated from
\* the array read at line 258; a rejection leaves finalizeTest at line 266.
TracingStop(t) ==
    /\ fin[t].pc = "stop"
    /\ \/ /\ fin' = [fin EXCEPT ![t] =
                       [@ EXCEPT !.pc = "cleanup", !.steps = 0,
                                 !.report = generateTestReport(Arr(t, fin[t].steps),
                                                fin[t].totalDuration, fin[t].success),
                                 !.okCalls = session[t].ok, !.failCalls = session[t].failed,
                                 !.sequential = session[t].sequential
                                                /\ call[t].pc \in Settled]]
          /\ tracing' = [tracing EXCEPT ![t] = FALSE]
          /\ dirs' = ScreenshotWritten(dirs, t)
          /\ heap' = Normalize(heap, debugSteps, call,
                               [fin EXCEPT ![t] = [@ EXCEPT !.steps = 0]])
       \/ LET f2 == SettledFin(fin[t], "threw", CaptureError)
          IN /\ fin' = [fin EXCEPT ![t] = f2]
             /\ heap' = Normalize(heap, debugSteps, call, [fin EXCEPT ![t] = f2])
             /\ UNCHANGED <<tracing, dirs>>
    /\ UNCHANGED <<helperVars, active, overlap, isDebugMode, now, debugSteps, testStartTime, call, init, session>>

\* Lines 275-276: clean up.
CleanUp(t) ==
    /\ fin[t].pc = "cleanup"
    /\ LET f2 == SettledFin(fin[t], "returned", "")
           dS == [debugSteps EXCEPT ![t] = 0]
       IN /\ fin' = [fin EXCEPT ![t] = f2]
          /\ debugSteps' = dS
          /\ testStartTime' = [testStartTime EXCEPT ![t] = Absent]
          /\ heap' = Normalize(heap, dS, call, [fin EXCEPT ![t] = f2])
    /\ session' = [session EXCEPT ![t].ok = 0, ![t].failed = 0]
    /\ UNCHANGED <<helperVars, active, overlap, dirs, isDebugMode, now, tracing, call, init>>

\* ---- the system ----
Next ==
    \/ \E t \in active : initializeTest(t)
    \/ \E t \in active : trackStep(t)
    \/ \E t \in active : BeforeScreenshot(t)
    \/ \E t \in active : StepFunctionSettles(t)
    \/ \E t \in active : AfterScreenshot(t)
    \/ \E t \in active : logStepDetails(t)
    \/ \E t \in active : ErrorScreenshot(t)
    \/ \E t \in active : PageContent(t)
    \/ \E t \in active : PageTitle(t)
    \/ \E t \in active : PageEvaluate(t)
    \/ \E t \in active, success \in BOOLEAN : finalizeTest(t, success)
    \/ \E t \in active : TracingStop(t)
    \/ \E t \in active : CleanUp(t)

Spec == Init /\ [][Next]_vars

SpecOverlap == InitOverlap /\ [][Next]_vars

\* The same calls with the clock running.
NextTimed == Next \/ Tick

SpecTimed == Init /\ [][NextTimed]_vars

\* ---- the artifact directory is removed between writes ----
\* test-results/ is cleared from outside the service (a new run, a clean-up).
RemoveDir ==
    /\ \E t \in active : t \in dirs /\ dirs' = dirs \ {t}
    /\ UNCHANGED <<helperVars, active, overlap, isDebugMode, now, debugSteps, testStartTime, heap, tracing,
                   call, fin, init, session>>

NextDisk == Next \/ RemoveDir

SpecDisk == Init /\ [][NextDisk]_vars

\* ---- the test suite (room-booking-debug-enhanced.spec.ts) ----
\* Lines 20-26: beforeEach calls initializeTest(testInfo.title, context), once
\* per test.
beforeEach(t) ==
    /\ init[t].pc = "idle"
    /\ initializeTest(t)

\* Lines 38-331: the test body awaits its debugStep calls one after the other;
\* it runs only when beforeEach passed and ends at the first call that throws.
debugStep(t) ==
    /\ init[t].pc = "returned"
    /\ fin[t].pc = "idle"
    /\ call[t].pc # "threw"
    /\ trackStep(t)

\* testInfo.status === 'passed' is false when a hook or a debugStep threw; the
\* body can fail outside its debugStep calls too.
Statuses(t) == {b \in BOOLEAN : b => (init[t].pc = "returned" /\ call[t].pc # "threw")}

\* Lines 28-32: afterEach runs once the body is over, also after a failure:
\* finalizeTest(testInfo.title, context, testInfo.status === 'passed').
afterEach(t) ==
    /\ init[t].pc # "idle"
    /\ fin[t].pc = "idle"
    /\ \E success \in Statuses(t) : finalizeTest(t, success)

NextSuite ==
    \/ \E t \in active : beforeEach(t)
    \/ \E t \in active : debugStep(t)
    \/ \E t \in active : BeforeScreenshot(t)
    \/ \E t \in active : StepFunctionSettles(t)
    \/ \E t \in active : AfterScreenshot(t)
    \/ \E t \in active : logStepDetails(t)
    \/ \E t \in active : ErrorScreenshot(t)
    \/ \E t \in active : PageContent(t)
    \/ \E t \in active : PageTitle(t)
    \/ \E t \in active : PageEvaluate(t)
    \/ \E t \in active : afterEach(t)
    \/ \E t \in active : TracingStop(t)
    \/ \E t \in active : CleanUp(t)

\* One test of the suite.
SpecSuite == Init /\ [][NextSuite]_vars

\* Two tests of the suite whose calls interleave in every order.
InitPair == active = Tests /\ overlap = FALSE /\ TypeInit

SpecPair == InitPair /\ [][NextSuite]_vars

\* ---- ElementActions.clickWithRetry ----
\* A loop head that lets i reach maxRetries.
LoopContinues_Inclusive(i, maxRetries) == i <= maxRetries

\* PageUtils.ts line 13: for (let i = 0; i < maxRetries; i++).
LoopContinues(i, maxRetries) == i < maxRetries

\* The loop head: the next attempt (element.click() is called) or, when the
\* loop is over, the end of the function, which returns undefined.
LoopHead(c) ==
    IF LoopContinues(c.i, c.maxRetries)
    THEN [c EXCEPT !.pc = "clicking", !.attempts = @ + 1]
    ELSE [c EXCEPT !.pc = "returned"]

\* Line 12: the call, with the caller's maxRetries.
clickWithRetry(maxRetries) ==
    /\ click.pc \in Settled
    /\ click' = LoopHead([IdleClick EXCEPT !.maxRetries = maxRetries])
    /\ UNCHANGED <<serviceVars, outcome, perf, loader, files>>

\* Lines 14-19: await element.click() settles.  Resolved: return.  Rejected:
\* rethrow when this was the last round, else await waitForTimeout(1000).
ClickSettles ==
    /\ click.pc = "clicking"
    /\ \/ click' = [click EXCEPT !.pc = "returned", !.clicked = TRUE]
       \/ IF click.i = click.maxRetries - 1
          THEN click' = [click EXCEPT !.pc = "threw",
                                      !.error = [kind |-> "click", attempt |-> click.attempts]]
          ELSE click' = [click EXCEPT !.pc = "waiting", !.waits = @ + 1]
    /\ UNCHANGED <<serviceVars, outcome, perf, loader, files>>

\* Line 19: await element.page().waitForTimeout(1000) settles; it rejects when
\* the page was closed meanwhile, and the rejection leaves the function.
WaitSettles ==
    /\ click.pc = "waiting"
    /\ \/ click' = LoopHead([click EXCEPT !.i = @ + 1])
       \/ click' = [click EXCEPT !.pc = "threw",
                                 !.error = [kind |-> "wait", attempt |-> click.attempts]]
    /\ UNCHANGED <<serviceVars, outcome, perf, loader, files>>

NextClick ==
    \/ \E maxRetries \in MinRetries..MaxRetries : clickWithRetry(maxRetries)
    \/ ClickSettles
    \/ WaitSettles

\* ---- the check of the booking submission's outcome ----
\* room-booking-structured.spec.ts 292-311 (handleBookingSubmissionOutcome),
\* room-booking-refactored.spec.ts 35-45, room-booking-debug-enhanced.spec.ts
\* 252-287: the form was submitted, the confirmation check is awaited.
handleBookingSubmissionOutcome(variant) ==
    /\ outcome.pc \in {"idle", "passed", "threw"}
    /\ outcome' = [IdleOutcome EXCEPT !.pc = "confirmation", !.variant = variant]
    /\ UNCHANGED <<serviceVars, click, perf, loader, files>>

\* The confirmation check settles: verified, or the catch branch starts the
\* check for the known application error.
ConfirmationSettles ==
    /\ outcome.pc = "confirmation"
    /\ \/ outcome' = [outcome EXCEPT !.pc = "passed", !.confirmed = "yes"]
       \/ outcome' = [outcome EXCEPT !.pc = "applicationError", !.confirmed = "no"]
    /\ UNCHANGED <<serviceVars, click, perf, loader, files>>

\* The application-error check settles.  When it fails too, the structured and
\* the refactored test throw their error at once; the debug-enhanced test first
\* awaits page.title() and page.content() for its message (lines 279-281).
ApplicationErrorSettles ==
    /\ outcome.pc = "applicationError"
    /\ \/ outcome' = [outcome EXCEPT !.pc = "passed", !.knownError = "yes"]
       \/ outcome' = [outcome EXCEPT !.knownError = "no",
                         !.pc = IF outcome.variant = "debug" THEN "title" ELSE "threw",
                         !.error = IF outcome.variant = "debug" THEN ""
                                   ELSE UnexpectedStateError]
    /\ UNCHANGED <<serviceVars, click, perf, loader, files>>

\* room-booking-debug-enhanced.spec.ts line 280: await page.title().
DebugTitleSettles ==
    /\ outcome.pc = "title"
    /\ \/ outcome' = [outcome EXCEPT !.pc = "content"]
       \/ outcome' = [outcome EXCEPT !.pc = "threw", !.error = CaptureError]
    /\ UNCHANGED <<serviceVars, click, perf, loader, files>>

\* Lines 281-285: await page.content(), then throw new Error('Unexpected state ...').
DebugContentSettles ==
    /\ outcome.pc = "content"
    /\ \/ outcome' = [outcome EXCEPT !.pc = "threw", !.error = UnexpectedStateError]
       \/ outcome' = [outcome EXCEPT !.pc = "threw", !.error = CaptureError]
    /\ UNCHANGED <<serviceVars, click, perf, loader, files>>

NextOutcome ==
    \/ \E variant \in Variants : handleBookingSubmissionOutcome(variant)
    \/ ConfirmationSettles
    \/ ApplicationErrorSettles
    \/ DebugTitleSettles
    \/ DebugContentSettles

\* The page helpers and the checks of the test bodies, outside DebugService.
NextPages == NextClick \/ NextOutcome

SpecPages == Init /\ [][NextPages]_vars

\* ---- DebugService.measurePerformance ----
\* A measurement that reports the duration and drops the operation's value.
Measured_DurationOnly(p, v, endTime, endMemory) ==
    [present |-> TRUE, result |-> 0, duration |-> endTime - p.startTime,
     memoryUsage |-> endMemory - p.startMemory]

\* part_002 lines 370-385: { result, duration, memoryUsage: memoryDiff }.
Measured(p, v, endTime, endMemory) ==
    [present |-> TRUE, result |-> v, duration |-> endTime - p.startTime,
     memoryUsage |-> endMemory - p.startMemory]

\* Lines 364-369: startTime, startMemory, then operation() is called and awaited.
measurePerformance ==
    /\ perf.pc \in Settled
    /\ \E m \in HeapSizes :
          perf' = [IdlePerf EXCEPT !.pc = "running", !.invoked = 1,
                                   !.startTime = now, !.startMemory = m]
    /\ UNCHANGED <<serviceVars, click, outcome, loader, files>>

\* Lines 369-390: the operation settles.  Resolved: the measurement is returned.
\* Rejected: the duration is logged and the error rethrown.
OperationSettles ==
    /\ perf.pc = "running"
    /\ \/ \E v \in Values, m \in HeapSizes :
            perf' = [perf EXCEPT !.pc = "returned", !.opKind = "returned", !.opVal = v,
                                 !.value = Measured(perf, v, now, m)]
       \/ \E e \in StepErrors :
            perf' = [perf EXCEPT !.pc = "threw", !.opKind = "threw", !.opErr = e,
                                 !.error = e]
    /\ UNCHANGED <<serviceVars, click, outcome, loader, files>>

NextPerf ==
    \/ measurePerformance
    \/ OperationSettles
    \/ Tick

SpecPerf == Init /\ [][NextPerf]_vars

\* ---- DataLoaderService ----
\* A loader that never finds its cache filled.
CacheHit_Never(testData) == FALSE

\* DataLoaderService.ts line 73: if (this.testData).
CacheHit(testData) == testData # 0

\* Lines 72-83, which run without a pause: the cached object, or the imported
\* JSON assigned to the cache.
Loaded(l) ==
    IF CacheHit(l.testData) THEN l
    ELSE [l EXCEPT !.testData = TestDataJson, !.loads = @ + 1]

\* A direct call of loadTestData.
loadTestData ==
    /\ ~CacheHit(loader.testData) => loader.loads < MaxLoads
    /\ LET l == Loaded(loader)
       IN loader' = [l EXCEPT !.last = [NoOutcome EXCEPT !.op = "loadTestData",
                                                        !.kind = "value",
                                                        !.data = l.testData]]
    /\ UNCHANGED <<serviceVars, click, outcome, perf, files>>

\* Lines 218-221: this.testData = null; return this.loadTestData().
reloadTestData ==
    /\ loader.loads < MaxLoads
    /\ LET l == Loaded([loader EXCEPT !.testData = 0])
       IN loader' = [l EXCEPT !.last = [NoOutcome EXCEPT !.op = "reloadTestData",
                                                        !.kind = "value",
                                                        !.data = l.testData]]
    /\ UNCHANGED <<serviceVars, click, outcome, perf, files>>

\* A keyed getter up to its await: const data = await this.loadTestData().
Getter(g, key) ==
    /\ loader.pc = "idle"
    /\ ~CacheHit(loader.testData) => loader.loads < MaxLoads
    /\ LET l == Loaded(loader)
       IN loader' = [l EXCEPT !.pc = "awaiting", !.getter = g, !.key = key,
                              !.data = l.testData]
    /\ UNCHANGED <<serviceVars, click, outcome, perf, files>>

\* The getters that test the looked-up value and throw (lines 99, 110, 122,
\* 133, 144, 155, 229); getValidUser (lines 88-91) returns data.users[userKey]
\* untested.
Checked(g) == g # "getValidUser"

HasData(key) == key = "k"

\* The getter resumes with the loaded object and looks its key up.
GetterResumes ==
    /\ loader.pc = "awaiting"
    /\ LET kind == IF HasData(loader.key) THEN "value"
                   ELSE IF Checked(loader.getter) THEN "error"
                   ELSE "undefined"
       IN loader' = [loader EXCEPT !.pc = "idle", !.getter = "", !.key = "", !.data = 0,
                        !.last = [op |-> "getter", kind |-> kind, getter |-> loader.getter,
                                  key |-> loader.key, data |-> loader.data]]
    /\ UNCHANGED <<serviceVars, click, outcome, perf, files>>

NextLoader ==
    \/ loadTestData
    \/ reloadTestData
    \/ \E g \in Getters, key \in Keys : Getter(g, key)
    \/ GetterResumes

SpecLoader == Init /\ [][NextLoader]_vars

\* ---- artifact paths ----
MaxArtifacts == 2                   \* artifacts written in one execution

\* Test titles as strings of tokens; the third one looks like an artifact of
\* the first.
Titles == {<<"t1">>, <<"t2">>, <<"t1", "/", "step-", "1", "-", "error.png">>}

Labels == {"before", "success", "error", "html", "trace"}

DigitChars == <<"0", "1", "2", "3", "4", "5", "6", "7", "8", "9">>

\* ${stepNumber}: the decimal digits of the number.
RECURSIVE Decimal(_)
Decimal(n) ==
    IF n < 10 THEN <<DigitChars[n + 1]>>
    ELSE Decimal(n \div 10) \o <<DigitChars[(n % 10) + 1]>>

\* The file names of part_002 lines 103, 121, 169 and 177.
FileName(label) ==
    CASE label = "before" -> "before.png"
      [] label = "success" -> "success.png"
      [] label = "error" -> "error.png"
      [] label = "html" -> "error.html"

\* One directory for every test: the title is not part of the path.
ArtifactPath_NoTitle(title, stepNumber, label) ==
    IF label = "trace"
    THEN <<"test-results/debug/", "trace.zip">>
    ELSE <<"test-results/debug/", "step-">> \o Decimal(stepNumber)
             \o <<"-", FileName(label)>>

\* `test-results/debug/${testName}/step-${stepNumber}-<file>` and, line 265,
\* `test-results/debug/${testName}/trace.zip`.
ArtifactPath(title, stepNumber, label) ==
    IF label = "trace"
    THEN <<"test-results/debug/">> \o title \o <<"/", "trace.zip">>
    ELSE <<"test-results/debug/">> \o title \o <<"/", "step-">> \o Decimal(stepNumber)
             \o <<"-", FileName(label)>>

\* An artifact of a step (or the trace of the session, which has no step) is
\* written at its path.
WriteArtifact(title, stepNumber, label) ==
    /\ Cardinality(files) < MaxArtifacts
    /\ files' = files \cup {[path |-> ArtifactPath(title, stepNumber, label),
                              title |-> title,
                              stepNumber |-> IF label = "trace" THEN 0 ELSE stepNumber,
                              label |-> label]}
    /\ UNCHANGED <<serviceVars, click, outcome, perf, loader>>

NextPaths ==
    \E title \in Titles, stepNumber \in 1..MaxSteps, label \in Labels :
        WriteArtifact(title, stepNumber, label)

SpecPaths == Init /\ [][NextPaths]_vars

\* ======================= the claims =======================
ThrowsNow(t) == call[t].pc \notin Settled /\ call'[t].pc = "threw"

ReturnsNow(t) == call[t].pc \notin Settled /\ call'[t].pc = "returned"

PushesNow(t) == call[t].pc \notin Settled /\ call'[t].pushes > call[t].pushes

LastOf(s) == s[Len(s)]

\* C1: when the step function of a trackStep call throws X, the call throws that
\* same X, and at that moment a failed step carrying X's message and the call's
\* step number is the last record under the test identifier.
C1_NonSwallowing ==
    [][\A t \in Tests :
          (ThrowsNow(t) /\ call[t].fnKind = "threw") =>
              /\ call'[t].error = call[t].fnErr
              /\ debugSteps'[t] # 0
              /\ Len(heap'[t][debugSteps'[t]]) > 0
              /\ LET rec == LastOf(heap'[t][debugSteps'[t]])
                 IN /\ ~rec.success
                    /\ rec.errorDetails.present
                    /\ rec.errorDetails.message = call[t].fnErr
                    /\ rec.stepNumber = call[t].sr.stepNumber]_vars

C1_Witness ==
    /\ call["t1"].pc = "threw" /\ call["t1"].fnKind = "threw" /\ call["t1"].error = "X"
    /\ Len(Under("t1")) = 1 /\ ~Under("t1")[1].success

\* C2: for every session (an identifier that was initialized), the step numbers
\* recorded under it, read in list order, are 1, 2, ..., N.
C2_SequenceInvariant ==
    \A t \in Tests :
        Live(t) => \A i \in 1..Len(Under(t)) : Under(t)[i].stepNumber = i

\* C3: a trackStep call that returns, returns the value its step function
\* returned, and has recorded exactly one step, successful, whose step number is
\* its position in the list (1 for the first step of a fresh session).
C3_SuccessReturnsValue ==
    [][\A t \in Tests :
          ReturnsNow(t) =>
              /\ call[t].fnKind = "returned"
              /\ call'[t].result = call[t].fnVal
              /\ call[t].pushes = 1
              /\ LET s == heap[t][call[t].steps]
                     i == call[t].pushedAt
                 IN /\ i \in 1..Len(s)
                    /\ s[i].success
                    /\ ~s[i].errorDetails.present
                    /\ s[i].stepNumber = i]_vars

C3_Witness ==
    /\ init["t1"].pc = "returned"
    /\ call["t1"].pc = "returned" /\ call["t1"].result = 42
    /\ Len(Under("t1")) = 1 /\ Under("t1")[1].success /\ Under("t1")[1].stepNumber = 1

\* C4: a trackStep call during which the before- or after-screenshot failed has
\* still run its step function, and if that function returned the call returned.
C4_DiagnosticsNeverAlterOutcome ==
    \A t \in Tests :
        (call[t].pc \in {"returned", "threw"} /\ call[t].shotFailed) =>
            /\ call[t].invoked = 1
            /\ call[t].fnKind = "returned" => call[t].pc = "returned"

C8_NoStepAfterFinish ==
    [][\A t \in Tests :
          (init[t].pc = "returned" /\ session[t].finished /\ session'[t].finished) =>
              Len(Under(t)') <= Len(Under(t))]_vars

\* C9: the report of an initialized session counts its trackStep calls:
\* total = s + f, successful = s, failed = f, for s calls that returned and f
\* that threw.
C9_ReportCounts ==
    \A t \in Tests :
        (fin[t].pc = "cleanup" /\ fin[t].sequential) =>
            /\ fin[t].report.totalSteps = fin[t].okCalls + fin[t].failCalls
            /\ fin[t].report.successfulSteps = fin[t].okCalls
            /\ fin[t].report.failedSteps = fin[t].failCalls

\* C10: the total duration of a report is at least the sum of the durations of
\* the steps it lists (stated for sessions that were initialized and whose calls
\* were awaited one after the other, where the claim is at its strongest).
C10_TotalDurationCoversSteps ==
    \A t \in Tests :
        (fin[t].pc = "cleanup" /\ fin[t].sequential) =>
            fin[t].report.totalDuration >= SumDuration(fin[t].report.steps)

\* What the service holds for one test identifier, and the calls made with it.
Own(t) == <<debugSteps[t], testStartTime[t], heap[t], call[t], fin[t], init[t]>>

\* C11: for two distinct test identifiers A and B whose calls interleave in any
\* order, a step that changes anything held for A (its step list, start time,
\* pending calls, step number, report) leaves everything held for B unchanged:
\* no step recorded with A reaches B's list or report, and B's numbering does
\* not depend on A.
C11_NoCrossTestLeakage ==
    [][\A a, b \in Tests :
          (a # b /\ Own(a)' # Own(a)) => Own(b)' = Own(b)]_vars

\* Both sessions recorded steps: A two, B one, and B's report lists its one step.
C11_Witness ==
    /\ Len(Under("t1")) = 2
    /\ Len(Under("t2")) = 1
    /\ fin["t2"].pc = "cleanup" /\ fin["t2"].report.totalSteps = 1
    /\ fin["t2"].report.steps = Under("t2")

\* C12: when the last trackStep call of a session threw because its step
\* function threw, and the failed record carrying that error's message is the
\* last of the list, the next trackStep call for the identifier is accepted,
\* works on the same session and gets the next step number (2 after a failed
\* first step).
C12_FailedStepKeepsSession ==
    [][\A t \in Tests :
          ( /\ call[t].pc = "threw" /\ call[t].fnKind = "threw"
            /\ Len(Under(t)) > 0
            /\ ~LastOf(Under(t)).success
            /\ LastOf(Under(t)).errorDetails.message = call[t].error
            /\ trackStep(t) ) =>
              /\ call'[t].pc \in {"before", "running"}
              /\ call'[t].hadSession
              /\ call'[t].steps = debugSteps[t]
              /\ call'[t].sr.stepNumber = LastOf(Under(t)).stepNumber + 1
              /\ Len(Under(t)) = 1 => call'[t].sr.stepNumber = 2]_vars

\* A failed first step followed by a step that ran its function and succeeded
\* as number 2.
C12_Witness ==
    /\ init["t1"].pc = "returned"
    /\ Len(Under("t1")) = 2
    /\ ~Under("t1")[1].success /\ Under("t1")[1].errorDetails.message = "X"
    /\ Under("t1")[1].stepNumber = 1
    /\ Under("t1")[2].success /\ Under("t1")[2].stepNumber = 2
    /\ call["t1"].pc = "returned" /\ call["t1"].invoked = 1

\* C13: the pass/fail flag of every report equals the success value the caller
\* passed to the finalizeTest call that produced it, whatever the recorded steps.
C13_ReportFlagIsCallersFlag ==
    \A t \in Tests :
        fin[t].report.present => fin[t].report.passed = fin[t].success

\* A session with a failed step reported as passed.
C13_Witness ==
    /\ fin["t1"].pc = "cleanup" /\ fin["t1"].success
    /\ fin["t1"].report.failedSteps > 0 /\ fin["t1"].report.passed

\* C14: finalizeTest tears an initialized session down atomically with respect to the
\* trackStep calls of the same identifier: between the report and the clean-up
\* the list under the identifier is the list the report was computed from (no
\* step is recorded that the report misses), and the step list is never gone
\* while the start time is still there.
C14_AtomicTeardown ==
    \A t \in Tests :
        /\ (init[t].pc = "returned" /\ fin[t].hadSession /\ fin[t].pc = "cleanup") =>
               fin[t].report.steps = Under(t)
        /\ debugSteps[t] = 0 => testStartTime[t] = Absent

\* C15: in every reachable state, every step in a step list (and every step a
\* report lists) has error details if and only if its success flag is false.
C15_ErrorDetailsIffFailure ==
    \A t \in Tests :
        /\ \A r \in Refs : \A i \in 1..Len(heap[t][r]) :
               heap[t][r][i].errorDetails.present <=> ~heap[t][r][i].success
        /\ \A i \in 1..Len(fin[t].report.steps) :
               fin[t].report.steps[i].errorDetails.present
                   <=> ~fin[t].report.steps[i].success

\* A list with a successful step without details and a failed one with them.
C15_Witness ==
    /\ Len(Under("t1")) = 2
    /\ Under("t1")[1].success /\ ~Under("t1")[1].errorDetails.present
    /\ ~Under("t1")[2].success /\ Under("t1")[2].errorDetails.present
    /\ Under("t1")[2].errorDetails.message = "X"

\* Which captures of captureErrorContext had succeeded when the call left it:
\* the error screenshot once page.content is awaited, the HTML snapshot once
\* page.title is awaited.
ErrorScreenshotCaptured(c) == c.pc \in {"content", "title", "evaluate"}

HtmlSnapshotCaptured(c) == c.pc \in {"title", "evaluate"}

\* C16: when the step function of a call failed, the step is recorded as failed
\* with the error's message whatever the captures did, and its error details
\* refer to the error screenshot exactly when that screenshot was taken and to
\* the HTML snapshot exactly when that snapshot was written, whether or not a
\* later capture of the same step failed.
C16_BestEffortErrorContext ==
    [][\A t \in Tests :
          (init[t].pc = "returned" /\ call[t].hadSession
             /\ ThrowsNow(t) /\ call[t].fnKind = "threw") =>
              LET rec == LastOf(heap'[t][debugSteps'[t]])
              IN /\ ~rec.success
                 /\ rec.errorDetails.message = call[t].fnErr
                 /\ rec.errorDetails.screenshot <=> ErrorScreenshotCaptured(call[t])
                 /\ rec.errorDetails.htmlSnapshot <=> HtmlSnapshotCaptured(call[t])]_vars

\* C17: a driver failure while tracing is started (initializeTest) or stopped
\* (finalizeTest) never reaches the caller: no initializeTest call and no
\* finalizeTest call ends by throwing, and a finalizeTest call that has
\* stopped waiting for the driver has its report.
C17_TracingFailureRecovered ==
    \A t \in Tests :
        /\ init[t].pc # "threw"
        /\ fin[t].pc # "threw"
        /\ fin[t].pc = "cleanup" => fin[t].report.present

\* C18: in the test suite, initializeTest (beforeEach) has run before any
\* debugStep of a test, finalizeTest (afterEach) runs only when the last
\* debugStep has settled, and once afterEach is over the service holds neither
\* a step list nor a start time for the test's title.
C18_SuiteLifecycle ==
    \A t \in Tests :
        /\ call[t].pc # "idle" => init[t].pc = "returned"
        /\ fin[t].pc # "idle" => call[t].pc \in Settled
        /\ fin[t].pc \in {"returned", "threw"} =>
               (debugSteps[t] = 0 /\ testStartTime[t] = Absent)

\* C19: whenever captureErrorContext gets to write the HTML snapshot of a test,
\* for the first time or again, creating the directory does not fail because
\* the directory exists, the write does not miss the directory, and the
\* directory exists once the snapshot is written.
C19_IdempotentDirectoryCreation ==
    [][\A t \in Tests :
          (call[t].pc = "content" /\ call'[t].pc # "content") =>
              /\ call'[t].captureError # "EEXIST"
              /\ call'[t].captureError # "ENOENT"
              /\ call'[t].pc = "title" => t \in dirs']_vars

\* The snapshot of step 2 is written after the snapshot of step 1 of the same
\* test.
C19_Witness ==
    /\ call["t1"].pc = "title" /\ call["t1"].sr.stepNumber = 2
    /\ Len(Under("t1")) = 1 /\ Under("t1")[1].errorDetails.htmlSnapshot
    /\ "t1" \in dirs

\* C20: every trackStep call made on an initialized session that has settled,
\* by returning or by throwing, with or without debug mode, has invoked its
\* step function exactly once.
C20_StepFunctionInvokedOnce ==
    \A t \in Tests :
        (init[t].pc = "returned" /\ call[t].hadSession
           /\ call[t].pc \in {"returned", "threw"}) =>
            call[t].invoked = 1

\* C21: the debug flag keeps its value, initializeTest starts tracing exactly
\* when the flag is set, and the driver is asked to stop tracing exactly when
\* tracing was started for the session: a finalizeTest call waits for
\* tracing.stop only while the trace is recording, and initializeTest starts a
\* trace only while none is recording.
C21_TracingPairing ==
    [][\A t \in Tests :
          /\ isDebugMode' = isDebugMode
          /\ (fin[t].pc # "stop" /\ fin'[t].pc = "stop") => tracing[t]
          /\ (fin[t].pc \in Settled /\ fin'[t].pc = "cleanup") => ~tracing[t]
          /\ (~tracing[t] /\ tracing'[t]) => isDebugMode
          /\ (initializeTest(t) /\ isDebugMode) => ~tracing[t]]_vars

\* C23: every trackStep call that has settled, by returning or by throwing, has
\* appended exactly one step record.
C23_OneRecordPerCall ==
    \A t \in Tests :
        (init[t].pc = "returned" /\ call[t].hadSession
           /\ call[t].pc \in {"returned", "threw"}) =>
            call[t].pushes = 1

\* C30: in every reachable state an initialized test identifier has a step list
\* exactly when it has a start time.
C30_RegistryConsistency ==
    \A t \in Tests :
        init[t].pc = "returned" =>
            (debugSteps[t] # 0 <=> testStartTime[t] # Absent)

\* C24: the check of the submission's outcome passes exactly when the booking
\* confirmation was verified or, that having failed, the known application
\* error was verified; when neither was, it fails with the explicit
\* unexpected-state error; and the application-error check is made only after
\* the confirmation check failed.
C24_DualOutcomeCheck ==
    /\ outcome.pc = "passed" =>
           \/ outcome.confirmed = "yes"
           \/ outcome.confirmed = "no" /\ outcome.knownError = "yes"
    /\ (outcome.confirmed = "yes" \/ outcome.knownError = "yes") => outcome.pc = "passed"
    /\ outcome.pc = "threw" =>
           /\ outcome.confirmed = "no" /\ outcome.knownError = "no"
           /\ outcome.error = UnexpectedStateError
    /\ (outcome.pc = "applicationError" \/ outcome.knownError # "unknown") =>
           outcome.confirmed = "no"

\* C26: a clickWithRetry call makes at most maxRetries click attempts; it is
\* over at the first attempt that succeeds; it waits once after every failed
\* attempt that is not the last and never otherwise; and when maxRetries
\* attempts have failed it throws the error of the last one.
C26_BoundedRetries ==
    /\ click.maxRetries >= 0 => click.attempts <= click.maxRetries
    /\ click.attempts <= MaxRetries
    /\ click.clicked => click.pc = "returned"
    /\ click.pc = "clicking" => click.waits = click.attempts - 1
    /\ click.pc = "waiting" =>
           (click.waits = click.attempts /\ click.attempts < click.maxRetries)
    /\ click.clicked => click.waits = click.attempts - 1
    /\ (click.pc = "threw" /\ click.error.kind = "click") =>
           /\ click.attempts = click.maxRetries
           /\ click.waits = click.attempts - 1
           /\ click.error.attempt = click.attempts
    /\ (click.pc \in {"returned", "threw"} /\ ~click.clicked
          /\ click.maxRetries >= 1 /\ click.attempts = click.maxRetries) =>
           /\ click.pc = "threw"
           /\ click.error = [kind |-> "click", attempt |-> click.maxRetries]

\* Three attempts: two failed, each followed by a wait, and the third failed and
\* was thrown.
C26_Witness ==
    /\ click.pc = "threw" /\ click.maxRetries = 3
    /\ click.attempts = 3 /\ click.waits = 2
    /\ click.error = [kind |-> "click", attempt |-> 3]

\* C27: for every maxRetries, zero and negative included, a clickWithRetry
\* call that returns has made a click attempt that succeeded.
C27_ReturnsOnlyAfterClick ==
    click.pc = "returned" => click.clicked

\* C25: a measurePerformance call has invoked its operation exactly once; when
\* it returns, the operation returned and the call's result is the operation's
\* value, unchanged, with the time that passed as duration; when the operation
\* threw, the call throws that same error and returns no result.
C25_MeasurePerformance ==
    /\ perf.pc # "idle" => perf.invoked = 1
    /\ perf.pc = "returned" =>
           /\ perf.opKind = "returned"
           /\ perf.value.present /\ perf.value.result = perf.opVal
           /\ perf.value.duration \in 0..(now - perf.startTime)
           /\ perf.error = ""
    /\ perf.pc = "threw" =>
           /\ perf.opKind = "threw"
           /\ perf.error = perf.opErr
           /\ ~perf.value.present
    /\ perf.opKind = "returned" => perf.pc = "returned"
    /\ perf.opKind = "threw" => perf.pc = "threw"

\* An operation that took one unit of time and returned 42.
C25_Witness ==
    /\ perf.pc = "returned" /\ perf.value.result = 42 /\ perf.value.duration = 1

\* C28: once the cache is filled, a loadTestData call and every getter work on
\* the cached object and load nothing; reloadTestData loads exactly once more
\* and leaves the cache filled; the cache is emptied by nothing else.
C28_LoaderCaching ==
    [][/\ (loader.testData # 0 /\ loadTestData) =>
              /\ loader'.loads = loader.loads
              /\ loader'.testData = loader.testData
              /\ loader'.last.data = loader.testData
       /\ (loader.testData # 0 /\ \E g \in Getters, key \in Keys : Getter(g, key)) =>
              /\ loader'.loads = loader.loads
              /\ loader'.testData = loader.testData
              /\ loader'.data = loader.testData
       /\ GetterResumes =>
              /\ loader'.loads = loader.loads
              /\ loader'.testData = loader.testData
              /\ loader'.last.data = loader.testData
       /\ reloadTestData =>
              /\ loader'.loads = loader.loads + 1
              /\ loader'.testData # 0
              /\ loader'.last.data = loader'.testData
       /\ loader.testData # 0 => loader'.testData # 0]_vars

\* A getter answered from the cache after a reload: two loads so far.
C28_Witness ==
    /\ loader.loads = 2 /\ loader.testData # 0
    /\ loader.last.op = "getter" /\ loader.last.kind = "value"
    /\ loader.last.data = loader.testData

\* C29: a keyed getter asked for a key without data fails with an error naming
\* the key and never returns an absent value; the cache is as it was.
C29_MissingDataFails ==
    (loader.last.op = "getter" /\ ~HasData(loader.last.key)) =>
        /\ loader.last.kind = "error"
        /\ loader.testData # 0

====
